---- MODULE Spec2Model ----
\* A model of src/js/thumbhash.js: the configurable ThumbHash codec
\* (configThumbHash, rgbaToThumbHash, thumbHashToRGBA, thumbHashToAverageRGBA)
\* and the minimal PNG emitter (rgbaToDataURL).
\*
\* Numbers.  JavaScript numbers are doubles.  Every quantity that the code
\* rounds, masks, shifts or stores into a byte is an exact integer here; the
\* real-valued quantities are carried in fixed point:
\*   - the encoder's DCT coefficients in units of 1/Den,
\*   - the decoder's reals in units of 1/FP, its cosines in units of 1/CosDen.
\* NaN (arithmetic on an `undefined` array read) is a distinguished value
\* that the arithmetic propagates.  32-bit words whose top bit matters (the
\* CRC register) are kept as eight 4-bit digits, least significant first.
EXTENDS Integers, Sequences, FiniteSets, TLC

VARIABLES config, ret, first

vars == <<config, ret, first>>

-----------------------------------------------------------------------------
\* Bounds of the model (not program constants).

\* Rasters carry a content id 0..MaxPx; id 0 is a raster of one flat colour.
MaxPx == 1
\* rgbaToDataURL is called with widths 1..MaxPngW (and 64, the first width
\* whose stored-block length needs a second byte) and heights 1..MaxPngH.
MaxPngW == 3
MaxPngH == 3
\* Content ids of the rasters handed to rgbaToDataURL on its own.
MaxPngPx == 11
\* configThumbHash is called on its own with the arguments at and around
\* the limits 1 and 10, and with 2..MaxArg.
MaxArg == 3

-----------------------------------------------------------------------------
\* The JavaScript operators the code uses.

Den == 1000
FP == 10000
CosDen == 1000
NaN == 2000000000

Abs(x) == IF x < 0 THEN -x ELSE x
Max2(a, b) == IF a > b THEN a ELSE b
Min2(a, b) == IF a < b THEN a ELSE b

\* Math.round on the value num/den (den > 0): floor(x + 0.5).
Round(num, den) == (2 * num + den) \div (2 * den)

\* a >> k, a << k and a & (2^k - 1) on non-negative integers below 2^31.
Shr(a, k) == a \div (2 ^ k)
Shl(a, k) == a * (2 ^ k)
Mask(a, k) == a % (2 ^ k)

RECURSIVE BitOr(_, _)
\* a | b on non-negative integers.
BitOr(a, b) ==
  IF a = 0 THEN b
  ELSE IF b = 0 THEN a
  ELSE (IF (a % 2 = 1) \/ (b % 2 = 1) THEN 1 ELSE 0) + 2 * BitOr(a \div 2, b \div 2)

RECURSIVE BitXor(_, _)
\* a ^ b on non-negative integers.
BitXor(a, b) ==
  IF a = 0 THEN b
  ELSE IF b = 0 THEN a
  ELSE ((a + b) % 2) + 2 * BitXor(a \div 2, b \div 2)

\* Storing a non-negative integer into a Uint8Array element.
ToUint8(x) == x % 256

\* Element i (0-based) of an array as an operand of |, >> or &: past the end
\* the read is `undefined`, which these operators turn into 0.
ByteAt(arr, i) == IF i < Len(arr) THEN arr[i + 1] ELSE 0

RECURSIVE Loop(_, _, _, _)
\* for (i = lo; i < hi; i++) st = Step(st, i).  The range is run first half,
\* then second half; comparing the intermediate state makes TLC evaluate the
\* first half before it descends into the second.
Loop(Step(_, _), st, lo, hi) ==
  IF lo >= hi THEN st
  ELSE IF hi = lo + 1 THEN Step(st, lo)
  ELSE LET mid == (lo + hi) \div 2
           left == Loop(Step, st, lo, mid)
       IN IF left = st THEN Loop(Step, st, mid, hi) ELSE Loop(Step, left, mid, hi)

RECURSIVE Collect(_, _, _)
\* for (i = lo; i < hi; i++) out.push(...Item(i)), for items that do not
\* depend on one another.
Collect(Item(_), lo, hi) ==
  IF lo >= hi THEN <<>>
  ELSE IF hi = lo + 1 THEN Item(lo)
  ELSE LET mid == (lo + hi) \div 2
       IN Collect(Item, lo, mid) \o Collect(Item, mid, hi)

-----------------------------------------------------------------------------
\* The triangular coefficient enumeration.

RECURSIVE IndexRow(_, _, _)
\* for (cx = ...; cx * n < n * (n - cy); cx++): the indices of row cy from cx on.
IndexRow(n, cy, cx) ==
  IF cx * n < n * (n - cy) THEN <<<<cx, cy>>>> \o IndexRow(n, cy, cx + 1) ELSE <<>>

RECURSIVE EncodeLoop(_, _)
\* for (cy = 0; cy < n; cy++) for (cx = 0; ...; cx++), rows cy and beyond.
EncodeLoop(n, cy) ==
  IF cy < n THEN IndexRow(n, cy, 0) \o EncodeLoop(n, cy + 1) ELSE <<>>

\* Every (cx, cy) encodeChannel computes a coefficient for, in loop order.
EncodeIndices(n) == EncodeLoop(n, 0)

\* DecodeStart without the skip of the DC index: cx = 0 in every row.
DecodeStartAtZero(cy) == 0

\* cx = cy ? 0 : 1
DecodeStart(cy) == IF cy # 0 THEN 0 ELSE 1

RECURSIVE DecodeLoop(_, _)
\* for (cy = 0; cy < n; cy++) for (cx = cy ? 0 : 1; ...; cx++), rows cy and beyond.
DecodeLoop(n, cy) ==
  IF cy < n THEN IndexRow(n, cy, DecodeStart(cy)) \o DecodeLoop(n, cy + 1) ELSE <<>>

\* Every (cx, cy) decodeChannel reads a nibble for, in loop order.
DecodeIndices(n) == DecodeLoop(n, 0)

-----------------------------------------------------------------------------
\* rgbaToThumbHash.

ac_start == 5

\* The rgba array of a raster: w * h * 4 bytes fixed by its content id; id 0
\* is opaque white in every pixel.
RgbaAt(raster, i) ==
  IF raster.px = 0 THEN 255 ELSE (raster.px * 83 + i * 29 + ((i * i) % 11)) % 256

RgbaOf(raster) == Collect(LAMBDA i : <<RgbaAt(raster, i)>>, 0, raster.w * raster.h * 4)

\* The L, P and Q values (units 1/Den) of a pixel r, g, b, a of a raster whose
\* pixels are all alike:
\*   alpha = rgba[j + 3] / 255;  avg_r = the mean of alpha / 255 * rgba[j]
\*   r = avg_r * (1 - alpha) + alpha / 255 * rgba[j], and g and b alike
\*   l = (r + g + b) / 3;  p = (r + g) / 2 - b;  q = r - g
Blend(a, c) == (((a * c * Den) \div 65025) * (255 - a)) \div 255 + (a * c * Den) \div 65025

LpqOf(r, g, b) == <<(r + g + b) \div 3, (r + g) \div 2 - b, r - g>>

Lpq(rgba) == LpqOf(Blend(rgba[4], rgba[1]), Blend(rgba[4], rgba[2]), Blend(rgba[4], rgba[3]))

\* cos(PI / 1 * c * (0 + 0.5)): the cosine of c quarter turns, 1, 0, -1, 0.
\* (At odd c the floating-point value is of the order of 1e-16, not 0.)
CosQuarter(c) == <<1, 0, -1, 0>>[(c % 4) + 1]

\* The mean over x < n of cos(PI / n * c * (x + 0.5)), for n = 1 or c < 2 * n:
\* 1 at c = 0, the one cosine when n = 1, and 0 otherwise.
CosMean(n, c) == IF c = 0 THEN 1 ELSE IF n = 1 THEN CosQuarter(c) ELSE 0

\* The DCT sum of a raster whose pixels are all alike: the channel value
\* times the means of the two cosines.
DctSumFlat(raster, ch, cx, cy) ==
  Lpq(<<RgbaAt(raster, 0), RgbaAt(raster, 1), RgbaAt(raster, 2), RgbaAt(raster, 3)>>)[ch + 1]
    * CosMean(raster.w, cx) * CosMean(raster.h, cy)

\* The DCT sum f of coefficient (cx, cy) of channel ch (0 = L, 1 = P, 2 = Q)
\* of a raster, in units of 1/Den.  The code computes it as a double sum of
\* cosines over the pixels, in floating point.  For a raster of one pixel or
\* of opaque white the model computes the sum; for any other raster it takes
\* the sum as a fixed function of the raster, the channel and the index,
\* with values in the range the arithmetic allows (L is in [0,1] and P and Q
\* are in [-1,1] in every pixel, and f is a mean of products of a channel
\* value with two cosines: the DC term of L is in [0,1], every other term
\* in [-1,1]).
DctSum(raster, ch, cx, cy) ==
  IF raster.px = 0 \/ (raster.w = 1 /\ raster.h = 1) THEN DctSumFlat(raster, ch, cx, cy)
  ELSE LET k == raster.px * 389 + raster.w * 31 + raster.h * 17
                  + ch * 211 + cx * 97 + cy * 59
       IN IF cx = 0 /\ cy = 0
            THEN IF ch = 0 THEN (k * 37) % (Den + 1)
                           ELSE ((k * 37) % (2 * Den + 1)) - Den
            ELSE ((k * 577) % (2 * Den + 1)) - Den

\* The (cx, cy) for which encodeChannel pushes an AC term: if (cx || cy) ac.push(f)
AcIndices(n) == SelectSeq(EncodeIndices(n), LAMBDA p : p[1] # 0 \/ p[2] # 0)

\* The AC terms pushed, before they are normalised.
RawAc(raster, ch, idx) ==
  Collect(LAMBDA j : <<DctSum(raster, ch, idx[j + 1][1], idx[j + 1][2])>>, 0, Len(idx))

\* scale = max(scale, abs(f)) over the AC terms.
MaxAbs(raw) == Loop(LAMBDA s, j : Max2(s, Abs(raw[j + 1])), 0, 0, Len(raw))

\* if (scale) for (...) ac[i] = 0.5 + 0.5 / scale * ac[i]
Normalise(raw, scale) ==
  IF scale # 0
    THEN Collect(LAMBDA i : <<Den \div 2 + ((Den \div 2) * raw[i + 1]) \div scale>>,
                 0, Len(raw))
    ELSE raw

\* return [dc, ac, scale], with the order idx in which the AC terms were pushed.
ChannelOf(dc, raw, idx) ==
  [dc |-> dc, ac |-> Normalise(raw, MaxAbs(raw)), scale |-> MaxAbs(raw), idx |-> idx]

ChannelAt(raster, ch, n, idx) ==
  \* dc = f at cx = cy = 0, which the loops reach when 0 < n
  ChannelOf(IF 0 < n THEN DctSum(raster, ch, 0, 0) ELSE 0, RawAc(raster, ch, idx), idx)

\* encodeChannel(channel, n): [dc, ac, scale]; ac is normalised to [0,1]
\* (units 1/Den) when scale is not 0.
encodeChannel(raster, ch, n) == ChannelAt(raster, ch, n, AcIndices(n))

\* The header24 with the l_scale field one bit lower: ... << 17
PackHeader24ScaleAt17(l_dc6, p_dc6, q_dc6, l_scale5) ==
  BitOr(BitOr(BitOr(l_dc6, Shl(p_dc6, 6)), Shl(q_dc6, 12)), Shl(l_scale5, 17))

\* The | and << of header24 on the four rounded values:
\* l_dc6 | (p_dc6 << 6) | (q_dc6 << 12) | (l_scale5 << 18)
PackHeader24(l_dc6, p_dc6, q_dc6, l_scale5) ==
  BitOr(BitOr(BitOr(l_dc6, Shl(p_dc6, 6)), Shl(q_dc6, 12)), Shl(l_scale5, 18))

\* The | and << of header16 on the two rounded values:
\* (p_scale6 << 3) | (q_scale6 << 9)
PackHeader16(p_scale6, q_scale6) == BitOr(Shl(p_scale6, 3), Shl(q_scale6, 9))

\* The header24 with l_scale rounded to 6 bits as p_scale and q_scale are:
\* ... | (round(63 * l_scale) << 18)
Header24ScaleSixBits(l, p, q) ==
  PackHeader24(Round(63 * l.dc, Den),
               Round(63 * Den + 63 * p.dc, 2 * Den),
               Round(63 * Den + 63 * q.dc, 2 * Den),
               Round(63 * l.scale, Den))

\* const header24 = round(63 * l_dc) | (round(31.5 + 31.5 * p_dc) << 6)
\*                | (round(31.5 + 31.5 * q_dc) << 12) | (round(31 * l_scale) << 18)
Header24(l, p, q) ==
  PackHeader24(Round(63 * l.dc, Den),
               Round(63 * Den + 63 * p.dc, 2 * Den),
               Round(63 * Den + 63 * q.dc, 2 * Den),
               Round(31 * l.scale, Den))

\* const header16 = (round(63 * p_scale) << 3) | (round(63 * q_scale) << 9)
Header16(p, q) == PackHeader16(Round(63 * p.scale, Den), Round(63 * q.scale, Den))

\* round(0x0f * f) for a normalised AC term f.
Nibble(f) == Round(15 * f, Den)

\* hash[at] |= v on a JavaScript array: a slot never written is undefined
\* (read as 0 by |=), and a write past the end leaves holes before it.
OrInto(h, at, v) ==
  IF at < Len(h) THEN [h EXCEPT ![at + 1] = BitOr(h[at + 1], v)]
  ELSE h \o [i \in 1..(at - Len(h)) |-> 0] \o <<v>>

\* WriteNibble with one 4-bit value per byte: hash[ac_start + ac_index] |= round(0x0f * f)
WriteNibbleOnePerByte(h, f, ac_index) ==
  OrInto(h, ac_start + ac_index, Nibble(f))

\* hash[ac_start + (ac_index >> 1)] |= round(0x0f * f) << ((ac_index++ & 1) << 2)
WriteNibble(h, f, ac_index) ==
  OrInto(h, ac_start + Shr(ac_index, 1), Shl(Nibble(f), Shl(ac_index % 2, 2)))

\* for (let ac of [l_ac, p_ac, q_ac]) for (let f of ac) ..., the counter
\* having started at ac_index0.
WriteAc(head, acs, ac_index0) ==
  Loop(LAMBDA h, k : WriteNibble(h, acs[k + 1], ac_index0 + k), head, 0, Len(acs))

\* const hash = [header24 & 0xff, (header24 >> 8) & 0xff, header24 >> 16,
\*               header16 & 0xff, header16 >> 8]
HashHead(header24, header16) ==
  <<Mask(header24, 8), Mask(Shr(header24, 8), 8), Shr(header24, 16),
    Mask(header16, 8), Shr(header16, 8)>>

\* new Uint8Array(hash)
Uint8Array(h) == Collect(LAMBDA i : <<ToUint8(h[i + 1])>>, 0, Len(h))

\* The 4-bit values round(0x0f * f) of the AC terms, in the order written.
Nibbles(acs) == Collect(LAMBDA k : <<Nibble(acs[k + 1])>>, 0, Len(acs))

\* The nibble loop and the return, the counter starting at ac_index0: the
\* returned Uint8Array, with the order of the AC indices and the 4-bit
\* values written.
PackAc(head, acs, idx, ac_index0) ==
  [hash |-> Uint8Array(WriteAc(head, acs, ac_index0)), idx |-> idx, nibbles |-> Nibbles(acs)]

\* The header and the AC terms of L, then P, then Q.
Pack(l, p, q, ac_index0) ==
  PackAc(HashHead(Header24(l, p, q), Header16(p, q)), l.ac \o p.ac \o q.ac,
         <<l.idx, p.idx, q.idx>>, ac_index0)

\* The body of rgbaToThumbHash after the dimension check, the nibble counter
\* starting at ac_index0.
EncodeFrom(raster, cfg, ac_index0) ==
  Pack(encodeChannel(raster, 0, cfg.LUMINANCE_TERMS),
       encodeChannel(raster, 1, cfg.CHROMINANCE_TERMS),
       encodeChannel(raster, 2, cfg.CHROMINANCE_TERMS), ac_index0)

\* let ac_index = 0
EncodeTrace(raster, cfg) == EncodeFrom(raster, cfg, 0)

EncodeHash(raster, cfg) == EncodeTrace(raster, cfg).hash

\* DimensionError with the limit itself rejected: w >= 100 || h >= 100.
DimensionErrorAtLimit(w, h) == w >= 100 \/ h >= 100

\* if (w > 100 || h > 100) throw
DimensionError(w, h) == w > 100 \/ h > 100

-----------------------------------------------------------------------------
\* thumbHashToRGBA.

\* Math.cos(PI / 32 * (xy + 0.5) * c) = cos(PI * k / 64) with k = (2 xy + 1) c,
\* in units of 1/CosDen: entry (k mod 128) + 1.
CosTable ==
  << 1000, 999, 995, 989, 981, 970, 957, 942, 924, 904, 882, 858, 831, 803, 773, 741,
     707, 672, 634, 596, 556, 514, 471, 428, 383, 337, 290, 243, 195, 147, 98, 49,
     0, -49, -98, -147, -195, -243, -290, -337, -383, -428, -471, -514, -556, -596, -634, -672,
     -707, -741, -773, -803, -831, -858, -882, -904, -924, -942, -957, -970, -981, -989, -995, -999,
     -1000, -999, -995, -989, -981, -970, -957, -942, -924, -904, -882, -858, -831, -803, -773, -741,
     -707, -672, -634, -596, -556, -514, -471, -428, -383, -337, -290, -243, -195, -147, -98, -49,
     0, 49, 98, 147, 195, 243, 290, 337, 383, 428, 471, 514, 556, 596, 634, 672,
     707, 741, 773, 803, 831, 858, 882, 904, 924, 942, 957, 970, 981, 989, 995, 999 >>

Cos64(k) == CosTable[(k % 128) + 1]

\* Arithmetic on the decoder's reals (units 1/FP), NaN propagating.
Add(a, b) == IF a = NaN \/ b = NaN THEN NaN ELSE a + b
Sub(a, b) == IF a = NaN \/ b = NaN THEN NaN ELSE a - b
\* a * k / m for integers k, m.
Scale(a, k, m) == IF a = NaN THEN NaN ELSE (a * k) \div m
\* a * c for a cosine factor c (units 1/CosDen).
MulCos(a, c) == IF a = NaN \/ c = NaN THEN NaN ELSE (a * c) \div CosDen

\* const header24 = hash[0] | (hash[1] << 8) | (hash[2] << 16)
ReadHeader24(h) == BitOr(BitOr(ByteAt(h, 0), Shl(ByteAt(h, 1), 8)), Shl(ByteAt(h, 2), 16))
\* const header16 = hash[3] | (hash[4] << 8)
ReadHeader16(h) == BitOr(ByteAt(h, 3), Shl(ByteAt(h, 4), 8))

\* The integers the shifts and masks take out of the two header words:
\* header24 & 63, (header24 >> 6) & 63, (header24 >> 12) & 63,
\* (header24 >> 18) & 31, (header16 >> 3) & 63, (header16 >> 9) & 63
HeaderFields(header24, header16) ==
  [l_dc |-> Mask(header24, 6),
   p_dc |-> Mask(Shr(header24, 6), 6),
   q_dc |-> Mask(Shr(header24, 12), 6),
   l_scale |-> Mask(Shr(header24, 18), 5),
   p_scale |-> Mask(Shr(header16, 3), 6),
   q_scale |-> Mask(Shr(header16, 9), 6)]

\* The byte index and the 4-bit value of the read
\* (hash[ac_start + (ac_index >> 1)] >> ((ac_index++ & 1) << 2)) & 15
NibbleByte(ac_index) == ac_start + Shr(ac_index, 1)
ReadNibble(h, ac_index) ==
  Mask(Shr(ByteAt(h, NibbleByte(ac_index)), Shl(ac_index % 2, 2)), 4)

\* decodeChannel(n, scale), entered with the shared counter at ac_index0:
\* ac.push(((nibble / 7.5) - 1) * scale), in units of 1/FP.
decodeChannel(h, n, scale, ac_index0) ==
  Collect(LAMBDA j : <<((2 * ReadNibble(h, ac_index0 + j) - 15) * scale) \div 15>>,
          0, Len(DecodeIndices(n)))

RECURSIVE Factors(_, _, _)
\* for (c = 0, n = config.LUMINANCE_TERMS; c < n; c++)
\*   f[c] = cos(PI / 32 * (xy + 0.5) * c)
\* the entries c.. of fx (xy = x) or of fy (xy = y).  No pixel writes an
\* entry at n or beyond.
Factors(n, c, xy) ==
  IF c < n THEN <<Cos64((2 * xy + 1) * c)>> \o Factors(n, c + 1, xy) ELSE <<>>

\* f[c]: a slot that was never written reads as undefined.
FactorAt(f, c) == IF c < Len(f) THEN f[c + 1] ELSE NaN

\* Decode L: l += l_ac[j] * fx[cx] * fy2, with fy2 = fy[cy] * 2
SumL(d, fx, fy) ==
  Loop(LAMBDA l, j :
         Add(l, MulCos(MulCos(d.l_ac[j + 1], FactorAt(fx, d.l_idx[j + 1][1])),
                       Scale(FactorAt(fy, d.l_idx[j + 1][2]), 2, 1))),
       d.l_dc, 0, Len(d.l_idx))

\* Decode P and Q: f = fx[cx] * fy2; p += p_ac[j] * f; q += q_ac[j] * f
SumPQ(d, fx, fy) ==
  Loop(LAMBDA pq, j :
         LET f == MulCos(FactorAt(fx, d.c_idx[j + 1][1]),
                         Scale(FactorAt(fy, d.c_idx[j + 1][2]), 2, 1))
         IN <<Add(pq[1], MulCos(d.p_ac[j + 1], f)), Add(pq[2], MulCos(d.q_ac[j + 1], f))>>,
       <<d.p_dc, d.q_dc>>, 0, Len(d.c_idx))

\* Sample without the clamp above, stored into a plain array: max(0, 255 * v).
SampleNoMin(v) ==
  IF v = NaN THEN 0
  ELSE Max2(0, 255 * v) \div FP

\* rgba[i] = max(0, 255 * min(1, v)) stored into a Uint8Array element:
\* max and min return NaN for a NaN argument; a Uint8Array stores NaN as 0
\* and any other number truncated, modulo 256.
Sample(v) ==
  IF v = NaN THEN 0
  ELSE ToUint8(Max2(0, 255 * Min2(FP, v)) \div FP)

\* rgba[i + 3] = 255
Alpha == 255

\* Convert to RGB and store the four samples of a pixel.
Rgba(l, p, q) ==
  \* b = l - 2 / 3 * p;  r = (3 * l - b + q) / 2;  g = r - q
  LET b == Sub(l, Scale(p, 2, 3))
      r == Scale(Add(Sub(Scale(l, 3, 1), b), q), 1, 2)
      g == Sub(r, q)
  IN <<Sample(r), Sample(g), Sample(b), Alpha>>

PixelOf(l, pq) == Rgba(l, pq[1], pq[2])

PixelWith(d, fx, fy) == PixelOf(SumL(d, fx, fy), SumPQ(d, fx, fy))

\* The four samples of output pixel (x, y).
Pixel(d, x, y) == PixelWith(d, Factors(d.n, 0, x), Factors(d.n, 0, y))

\* const w = 32, h = 32
OutW == 32
OutH == 32

\* The values read from the header and the nibbles; f holds the integers
\* taken out of the header words.
DecodedWith(h, nl, nc, f) ==
  [n |-> nl,
   l_idx |-> DecodeIndices(nl),
   c_idx |-> DecodeIndices(nc),
   \* l_dc = (header24 & 63) / 63;  p_dc = ((header24 >> 6) & 63) / 31.5 - 1
   l_dc |-> (f.l_dc * FP) \div 63,
   p_dc |-> ((f.p_dc * 2 * FP) \div 63) - FP,
   q_dc |-> ((f.q_dc * 2 * FP) \div 63) - FP,
   \* decodeChannel(config.LUMINANCE_TERMS, l_scale)
   l_ac |-> decodeChannel(h, nl, (f.l_scale * FP) \div 31, 0),
   \* decodeChannel(config.CHROMINANCE_TERMS, p_scale * 1.25)
   p_ac |-> decodeChannel(h, nc, (((f.p_scale * FP) \div 63) * 5) \div 4,
                          Len(DecodeIndices(nl))),
   q_ac |-> decodeChannel(h, nc, (((f.q_scale * FP) \div 63) * 5) \div 4,
                          Len(DecodeIndices(nl)) + Len(DecodeIndices(nc)))]

Decoded(h, nl, nc, header24, header16) ==
  DecodedWith(h, nl, nc, HeaderFields(header24, header16))

\* for (y = 0, i = 0; y < h; y++) for (x = 0; x < w; x++, i += 4)
Image(d) ==
  [w |-> OutW, h |-> OutH,
   rgba |-> Collect(LAMBDA y : Collect(LAMBDA x : Pixel(d, x, y), 0, OutW), 0, OutH)]

\* The body of thumbHashToRGBA(hash) under the term counts cfg.
DecodeImage(h, cfg) ==
  Image(Decoded(h, cfg.LUMINANCE_TERMS, cfg.CHROMINANCE_TERMS,
                ReadHeader24(h), ReadHeader16(h)))

-----------------------------------------------------------------------------
\* The body of thumbHashToAverageRGBA(hash): r, g, b, a in units of 1/FP.

AverageRGBA(h) ==
  LET header == ReadHeader24(h)
      l == (Mask(header, 6) * FP) \div 63
      p == ((Mask(Shr(header, 6), 6) * 2 * FP) \div 63) - FP
      q == ((Mask(Shr(header, 12), 6) * 2 * FP) \div 63) - FP
      hasAlpha == Shr(header, 23)
      b == l - (2 * p) \div 3
      r == (3 * l - b + q) \div 2
      g == r - q
  IN [r |-> Max2(0, Min2(FP, r)),
      g |-> Max2(0, Min2(FP, g)),
      b |-> Max2(0, Min2(FP, b)),
      a |-> IF hasAlpha # 0 THEN (Mask(ByteAt(h, 5), 4) * FP) \div 15 ELSE FP]

-----------------------------------------------------------------------------
\* rgbaToDataURL.

\* ~x & 255 for a non-negative x.
NotLow8(x) == 255 - Mask(x, 8)

AdlerMod == 65521

\* let bytes = [ signature, IHDR length and chunk, IDAT length, "IDAT", 120, 1 ]
PngHead(w, h, idat) ==
  << 137, 80, 78, 71, 13, 10, 26, 10, 0, 0, 0, 13, 73, 72, 68, 82, 0, 0,
     Shr(w, 8), Mask(w, 8), 0, 0, Shr(h, 8), Mask(h, 8), 8, 6, 0, 0, 0, 0, 0, 0, 0,
     Shr(idat, 24), Mask(Shr(idat, 16), 8), Mask(Shr(idat, 8), 8), Mask(idat, 8),
     73, 68, 65, 84, 120, 1 >>

\* PixelLoop with the two sums updated in the other order: b = (b + a) % 65521
\* before a = (a + u) % 65521.
PixelLoopSumFirst(st, rgba, lo, hi) ==
  Loop(LAMBDA s, i :
         LET u == Mask(ByteAt(rgba, i), 8)
         IN [bytes |-> Append(s.bytes, u), a |-> (s.a + u) % AdlerMod,
             b |-> (s.b + s.a) % AdlerMod],
       st, lo, hi)

\* for (...; i < end; i++) { u = rgba[i] & 255; bytes.push(u);
\*                           a = (a + u) % 65521; b = (b + a) % 65521 }
PixelLoop(st, rgba, lo, hi) ==
  Loop(LAMBDA s, i :
         LET u == Mask(ByteAt(rgba, i), 8)
             a == (s.a + u) % AdlerMod
         IN [bytes |-> Append(s.bytes, u), a |-> a, b |-> (s.b + a) % AdlerMod],
       st, lo, hi)

\* RowStep with the final-block bit set in every block header.
RowStepAllFinal(st, rgba, h, row, y) ==
  PixelLoop([bytes |-> st.bytes \o <<1, Mask(row, 8), Shr(row, 8),
                                    NotLow8(row), BitXor(Shr(row, 8), 255), 0>>,
             a |-> st.a,
             b |-> (st.b + st.a) % AdlerMod],
            rgba, y * (row - 1), (y + 1) * (row - 1))

\* One pass of the row loop: the stored-block header and the filter byte,
\* b = (b + a) % 65521 in the initialiser of the inner loop, then the pixels
\* rgba[i] for i up to end = (y + 1) * (row - 1).
RowStep(st, rgba, h, row, y) ==
  PixelLoop([bytes |-> st.bytes \o <<IF y + 1 < h THEN 0 ELSE 1, Mask(row, 8), Shr(row, 8),
                                    NotLow8(row), BitXor(Shr(row, 8), 255), 0>>,
             a |-> st.a,
             b |-> (st.b + st.a) % AdlerMod],
            rgba, y * (row - 1), (y + 1) * (row - 1))

\* let table = [...]
table ==
  << 0, 498536548, 997073096, 651767980, 1994146192, 1802195444, 1303535960,
     1342533948, -306674912, -267414716, -690576408, -882789492, -1687895376,
     -2032938284, -1609899400, -1111625188 >>

RECURSIVE Digits(_, _)
\* The k low 4-bit digits of a non-negative integer, least significant first.
Digits(u, k) == IF k = 0 THEN <<>> ELSE <<u % 16>> \o Digits(u \div 16, k - 1)

\* The 32 bits of the int32 n (two's complement) as eight 4-bit digits.
Word(n) ==
  IF n >= 0 THEN Digits(n, 8)
  ELSE LET d == Digits(n + 2147483647 + 1, 8) IN [d EXCEPT ![8] = d[8] + 8]

tableWords == Collect(LAMBDA k : <<Word(table[k + 1])>>, 0, 16)

\* a ^ b for 4-bit digits, tabulated: entry [a + 1][b + 1].
xor4 == Collect(LAMBDA a : <<Collect(LAMBDA b : <<BitXor(a, b)>>, 0, 16)>>, 0, 16)

\* x ^ y on 32-bit words.
XorWord(x, y) ==
  << xor4[x[1] + 1][y[1] + 1], xor4[x[2] + 1][y[2] + 1], xor4[x[3] + 1][y[3] + 1],
     xor4[x[4] + 1][y[4] + 1], xor4[x[5] + 1][y[5] + 1], xor4[x[6] + 1][y[6] + 1],
     xor4[x[7] + 1][y[7] + 1], xor4[x[8] + 1][y[8] + 1] >>

\* ~x on a 32-bit word.
NotWord(x) ==
  << 15 - x[1], 15 - x[2], 15 - x[3], 15 - x[4], 15 - x[5], 15 - x[6], 15 - x[7], 15 - x[8] >>

\* c = (c >>> 4) ^ table[c & 15]
CrcNibble(c) ==
  XorWord(<<c[2], c[3], c[4], c[5], c[6], c[7], c[8], 0>>, tableWords[c[1] + 1])

\* CrcByte with a single table step for each byte.
CrcByteOneStep(c, byte) ==
  CrcNibble(XorWord(c, <<byte % 16, byte \div 16, 0, 0, 0, 0, 0, 0>>))

\* c ^= bytes[i], then the two table steps.
CrcByte(c, byte) ==
  CrcNibble(CrcNibble(XorWord(c, <<byte % 16, byte \div 16, 0, 0, 0, 0, 0, 0>>)))

\* let c = ~0; for (i = start; i < end; i++) ...; c = ~c
CrcOf(bytes, start, end) ==
  NotWord(Loop(LAMBDA c, i : CrcByte(c, ByteAt(bytes, i)), Word(-1), start, end))

\* bytes[at] = v on a JavaScript array.
SetAt(bytes, at, v) ==
  IF at < Len(bytes) THEN [bytes EXCEPT ![at + 1] = v]
  ELSE bytes \o [i \in 1..(at - Len(bytes)) |-> 0] \o <<v>>

\* bytes[end++] = c >>> 24; ... = (c >> 16) & 255; ... = (c >> 8) & 255; ... = c & 255
CrcBytes(c) == <<c[7] + 16 * c[8], c[5] + 16 * c[6], c[3] + 16 * c[4], c[1] + 16 * c[2]>>

\* The four stores of a pass.
StoreCrc(bytes, end, out) ==
  SetAt(SetAt(SetAt(SetAt(bytes, end, out[1]), end + 1, out[2]), end + 2, out[3]),
        end + 3, out[4])

\* One pass of for (let [start, end] of [[12, 29], [37, 41 + idat]]).
CrcPass(bytes, start, end) == StoreCrc(bytes, end, CrcBytes(CrcOf(bytes, start, end)))

\* bytes.push(b >> 8, b & 255, a >> 8, a & 255, 0, 0, 0, 0, 0, 0, 0, 0, 73, 69, 78, 68, ...)
Trailer(rows) ==
  rows.bytes \o <<Shr(rows.b, 8), Mask(rows.b, 8), Shr(rows.a, 8), Mask(rows.a, 8),
                  0, 0, 0, 0, 0, 0, 0, 0, 73, 69, 78, 68, 174, 66, 96, 130>>

PngBytesOf(w, h, rgba, row, idat) ==
  CrcPass(CrcPass(Trailer(Loop(LAMBDA st, y : RowStep(st, rgba, h, row, y),
                               \* let a = 1, b = 0
                               [bytes |-> PngHead(w, h, idat), a |-> 1, b |-> 0], 0, h)),
                  12, 29),
          37, 41 + idat)

\* The bytes array at the return of rgbaToDataURL(w, h, rgba):
\* let row = w * 4 + 1; let idat = 6 + h * (5 + row)
PngBytes(w, h, rgba) == PngBytesOf(w, h, rgba, w * 4 + 1, 6 + h * (5 + (w * 4 + 1)))

\* btoa(String.fromCharCode(...bytes)): four 6-bit digits for every three
\* bytes, the digit 64 standing for the padding character.
Base64(bytes) ==
  Collect(LAMBDA g :
            LET b0 == ByteAt(bytes, 3 * g)
                b1 == ByteAt(bytes, 3 * g + 1)
                b2 == ByteAt(bytes, 3 * g + 2)
            IN << Shr(b0, 2),
                  Mask(b0, 2) * 16 + Shr(b1, 4),
                  IF 3 * g + 1 < Len(bytes) THEN Mask(b1, 4) * 4 + Shr(b2, 6) ELSE 64,
                  IF 3 * g + 2 < Len(bytes) THEN Mask(b2, 6) ELSE 64 >>,
          0, (Len(bytes) + 2) \div 3)

\* return 'data:image/png;base64,' + btoa(...), with the bytes array it encodes.
UrlOf(bytes) ==
  [prefix |-> "data:image/png;base64,", base64 |-> Base64(bytes), bytes |-> bytes]

DataURL(w, h, rgba) == UrlOf(PngBytes(w, h, rgba))

-----------------------------------------------------------------------------
\* The module as a state machine: the stored term counts and the calls made
\* on the exported functions.

\* An argument left out of a call.
Undefined == -2000000000

\* const config = { LUMINANCE_TERMS: 7, CHROMINANCE_TERMS: 3 }
DefaultConfig == [LUMINANCE_TERMS |-> 7, CHROMINANCE_TERMS |-> 3]

\* Arguments the callers hand to configThumbHash.
LuminanceArgs == {Undefined, 0, 1, 3, 11}
ChrominanceArgs == {Undefined, 0, 11}

\* The term counts these calls can store.
Configs ==
  [LUMINANCE_TERMS : {7} \cup (LuminanceArgs \cap (1..10)),
   CHROMINANCE_TERMS : {3} \cup (ChrominanceArgs \cap (1..10))]

\* Rasters handed to rgbaToThumbHash: each side at or just past the limit.
Dims == {100, 101}
Rasters == [w : Dims, h : Dims, px : 0..MaxPx]

\* Hashes handed to the decoding functions: what rgbaToThumbHash returned for
\* a 100 x 100 raster under each of the term counts.
SampleRaster == [w |-> 100, h |-> 100, px |-> 1]
Hashes == {EncodeHash(SampleRaster, c) : c \in Configs}

\* Rasters handed to rgbaToDataURL when it is exercised on its own, and the
\* ones handed to it among the other calls.
PngRasters ==
  [w : 1..MaxPngW, h : 1..MaxPngH, px : 0..MaxPngPx] \cup [w : {64}, h : 1..MaxPngH, px : {1}]
SmallRasters == {r \in PngRasters : r.w = 1 /\ r.h = 1 /\ r.px <= 1}

\* Results computed once for the arguments above.
EncodeTable ==
  {<<r, c, EncodeHash(r, c)>> : r \in {x \in Rasters : ~DimensionError(x.w, x.h)}, c \in Configs}
DecodeTable == {<<h, c, DecodeImage(h, c)>> : h \in Hashes, c \in Configs}
UrlTable == {<<r, 0, DataURL(r.w, r.h, RgbaOf(r))>> : r \in PngRasters}
ImageUrlTable ==
  {<<t[1], t[2], DataURL(t[3].w, t[3].h, t[3].rgba)>> : t \in DecodeTable}

Lookup(tbl, a, c) == (CHOOSE t \in tbl : t[1] = a /\ t[2] = c)[3]

NoCall == [op |-> "none", args |-> <<>>, cfg |-> DefaultConfig, threw |-> FALSE, value |-> <<>>]

\* What a call did: its arguments, the term counts stored when it ran,
\* whether it threw, and the value it returned.
Call(op, args, threw, value) ==
  [op |-> op, args |-> args, cfg |-> config, threw |-> threw, value |-> value]

\* first keeps the first call of the codec that returned.
Remember(call) == IF first.op = "none" /\ ~call.threw THEN call ELSE first

Init ==
  /\ config = DefaultConfig
  /\ ret = NoCall
  /\ first = NoCall

\* configThumbHash storing the luminance count as soon as it has passed its
\* own check, before the chrominance count is looked at.
configThumbHashStoreEarly(luminanceTerms, chrominanceTerms) ==
  LET l == IF luminanceTerms = Undefined THEN 7 ELSE luminanceTerms
      c == IF chrominanceTerms = Undefined THEN 3 ELSE chrominanceTerms
      args == <<luminanceTerms, chrominanceTerms>>
  IN /\ IF l < 1 \/ l > 10
          THEN /\ ret' = Call("configThumbHash", args, TRUE, "Luminance terms must be between 1 and 10")
               /\ UNCHANGED config
          ELSE IF c < 1 \/ c > 10
          THEN /\ ret' = Call("configThumbHash", args, TRUE, "Chrominance terms must be between 1 and 10")
               /\ config' = [config EXCEPT !.LUMINANCE_TERMS = l]
          ELSE /\ config' = [LUMINANCE_TERMS |-> l, CHROMINANCE_TERMS |-> c]
               /\ ret' = Call("configThumbHash", args, FALSE, <<>>)
     /\ UNCHANGED first

\* configThumbHash(luminanceTerms = 7, chrominanceTerms = 3)
configThumbHash(luminanceTerms, chrominanceTerms) ==
  LET l == IF luminanceTerms = Undefined THEN 7 ELSE luminanceTerms
      c == IF chrominanceTerms = Undefined THEN 3 ELSE chrominanceTerms
      args == <<luminanceTerms, chrominanceTerms>>
  IN /\ IF l < 1 \/ l > 10
          THEN /\ ret' = Call("configThumbHash", args, TRUE, "Luminance terms must be between 1 and 10")
               /\ UNCHANGED config
          ELSE IF c < 1 \/ c > 10
          THEN /\ ret' = Call("configThumbHash", args, TRUE, "Chrominance terms must be between 1 and 10")
               /\ UNCHANGED config
          ELSE /\ config' = [LUMINANCE_TERMS |-> l, CHROMINANCE_TERMS |-> c]
               /\ ret' = Call("configThumbHash", args, FALSE, <<>>)
     /\ UNCHANGED first

\* rgbaToThumbHash with the nibble counter kept at module level and never
\* reset: a call starts where the previous encoding call stopped.
rgbaToThumbHashStaleIndex(raster) ==
  /\ ret' = IF DimensionError(raster.w, raster.h)
              THEN Call("rgbaToThumbHash", raster, TRUE, "doesn't fit in 100x100")
              ELSE Call("rgbaToThumbHash", raster, FALSE,
                        EncodeFrom(raster, config,
                                   IF ret.op = "rgbaToThumbHash" /\ ~ret.threw
                                     THEN 2 * (Len(ret.value) - ac_start) ELSE 0).hash)
  /\ first' = Remember(ret')
  /\ UNCHANGED config

\* rgbaToThumbHash(w, h, rgba)
rgbaToThumbHash(raster) ==
  /\ ret' = IF DimensionError(raster.w, raster.h)
              THEN Call("rgbaToThumbHash", raster, TRUE, "doesn't fit in 100x100")
              ELSE Call("rgbaToThumbHash", raster, FALSE, Lookup(EncodeTable, raster, config))
  /\ first' = Remember(ret')
  /\ UNCHANGED config

\* thumbHashToRGBA(hash)
thumbHashToRGBA(hash) ==
  /\ ret' = Call("thumbHashToRGBA", hash, FALSE, Lookup(DecodeTable, hash, config))
  /\ first' = Remember(ret')
  /\ UNCHANGED config

\* thumbHashToAverageRGBA(hash)
thumbHashToAverageRGBA(hash) ==
  /\ ret' = Call("thumbHashToAverageRGBA", hash, FALSE, AverageRGBA(hash))
  /\ UNCHANGED <<config, first>>

\* rgbaToDataURL(w, h, rgba)
rgbaToDataURL(raster) ==
  /\ ret' = Call("rgbaToDataURL", raster, FALSE, Lookup(UrlTable, raster, 0))
  /\ UNCHANGED <<config, first>>

\* thumbHashToDataURL(hash): thumbHashToRGBA followed by rgbaToDataURL.
thumbHashToDataURL(hash) ==
  /\ ret' = Call("thumbHashToDataURL", hash, FALSE, Lookup(ImageUrlTable, hash, config))
  /\ UNCHANGED <<config, first>>

Next ==
  \/ \E l \in LuminanceArgs, c \in ChrominanceArgs : configThumbHash(l, c)
  \/ \E raster \in Rasters : rgbaToThumbHash(raster)
  \/ \E hash \in Hashes : thumbHashToRGBA(hash)
  \/ \E hash \in Hashes : thumbHashToAverageRGBA(hash)
  \/ \E raster \in SmallRasters : rgbaToDataURL(raster)
  \/ \E hash \in Hashes : thumbHashToDataURL(hash)

Spec == Init /\ [][Next]_vars

-----------------------------------------------------------------------------
\* configThumbHash on its own, over integer arguments (the term counts are
\* integers) and omitted ones.

ConfigArgs == {Undefined, -1, 0, 1, 10, 11} \cup (2..MaxArg)

NextConfig == \E l \in ConfigArgs, c \in ConfigArgs : configThumbHash(l, c)

SpecConfig == Init /\ [][NextConfig]_vars

-----------------------------------------------------------------------------
\* rgbaToThumbHash on its own, once, under every pair of term counts that
\* configThumbHash accepts; the call is recorded with the order in which it
\* pushed the AC terms and the 4-bit values it wrote.

AllConfigs == [LUMINANCE_TERMS : 1..10, CHROMINANCE_TERMS : 1..10]

EncDims == {1, 100, 101}
EncRasters == [w : EncDims, h : EncDims, px : 0..MaxPx]

InitEnc ==
  /\ config \in AllConfigs
  /\ ret = NoCall
  /\ first = NoCall

rgbaToThumbHashTrace(raster) ==
  /\ ret.op = "none"
  /\ ret' = IF DimensionError(raster.w, raster.h)
              THEN Call("rgbaToThumbHash", raster, TRUE, "doesn't fit in 100x100")
              ELSE Call("rgbaToThumbHash", raster, FALSE, EncodeTrace(raster, config))
  /\ UNCHANGED <<config, first>>

NextEnc == \E raster \in EncRasters : rgbaToThumbHashTrace(raster)

SpecEnc == InitEnc /\ [][NextEnc]_vars

-----------------------------------------------------------------------------
\* rgbaToDataURL on its own.

NextPng == \E raster \in PngRasters : rgbaToDataURL(raster)

SpecPng == Init /\ [][NextPng]_vars

-----------------------------------------------------------------------------
\* Properties of rgbaToThumbHash, checked under SpecEnc.

\* The call recorded in ret is a call of rgbaToThumbHash that returned.
Encoded == ret.op = "rgbaToThumbHash" /\ ~ret.threw

\* The number of pairs (cx, cy) other than (0, 0) with 0 <= cy < n and
\* cx * n < n * (n - cy).
AcCount(n) ==
  Cardinality({p \in (0..n) \X (0..(n - 1)) :
                 p # <<0, 0>> /\ p[1] * n < n * (n - p[2])})

TotalAc(cfg) == AcCount(cfg.LUMINANCE_TERMS) + 2 * AcCount(cfg.CHROMINANCE_TERMS)

C3_DimensionError ==
  ret.op = "rgbaToThumbHash" =>
    /\ ret.threw <=> (ret.args.w > 100 \/ ret.args.h > 100)
    /\ ret.threw => ret.value = "doesn't fit in 100x100"
    /\ ~ret.threw => Len(ret.value.hash) >= ac_start

\* A call with w = 100 and h = 101 threw.
C3_Witness ==
  /\ ret.op = "rgbaToThumbHash"
  /\ ret.args.w = 100 /\ ret.args.h = 101
  /\ ret.threw

\* C9: with 4 luminance and 3 chrominance terms the hash has exactly 14 bytes.
C9_FourteenBytes ==
  (Encoded /\ ret.cfg = [LUMINANCE_TERMS |-> 4, CHROMINANCE_TERMS |-> 3])
    => Len(ret.value.hash) = 14

\* C10: under every pair of term counts in 1..10, decodeChannel visits for
\* L, then P, then Q the indices encodeChannel pushed an AC term for, in the
\* same order and number; the k-th 4-bit value the decoder reads is the k-th
\* value round(15 * f), in 0..15, that the encoder wrote; and every byte the
\* decoder reads lies inside the hash.
C10_SameOrder ==
  Encoded =>
    LET t == ret.value
        nl == ret.cfg.LUMINANCE_TERMS
        nc == ret.cfg.CHROMINANCE_TERMS
        reads == Len(DecodeIndices(nl)) + 2 * Len(DecodeIndices(nc))
    IN /\ t.idx = <<DecodeIndices(nl), DecodeIndices(nc), DecodeIndices(nc)>>
       /\ reads = Len(t.nibbles)
       /\ \A k \in 0..(reads - 1) :
            /\ t.nibbles[k + 1] \in 0..15
            /\ ReadNibble(t.hash, k) = t.nibbles[k + 1]
            /\ NibbleByte(k) < Len(t.hash)

\* A raster with non-zero AC terms encoded under (7, 3): 37 nibbles, the last
\* one alone in the low half of the last byte, and neighbouring nibbles that differ.
C10_Witness ==
  /\ Encoded
  /\ ret.cfg = DefaultConfig
  /\ Len(ret.value.nibbles) = 37
  /\ NibbleByte(36) = Len(ret.value.hash) - 1
  /\ ret.value.nibbles[1] # ret.value.nibbles[2]
  /\ ret.value.nibbles[2] # 0

-----------------------------------------------------------------------------
\* Properties of the calls among one another, checked under Spec.

\* first and ret are two calls of the same codec function, rgbaToThumbHash
\* or thumbHashToRGBA, with the same arguments, that both returned.
SameCall ==
  /\ first.op \in {"rgbaToThumbHash", "thumbHashToRGBA"}
  /\ ret.op = first.op
  /\ ret.args = first.args
  /\ ~ret.threw

C5_DecodedShape ==
  (/\ ret.op = "thumbHashToRGBA"
   /\ \E r \in Rasters : ~DimensionError(r.w, r.h)
                         /\ Lookup(EncodeTable, r, ret.cfg) = ret.args)
    => /\ ret.value.w = 32
       /\ ret.value.h = 32
       /\ Len(ret.value.rgba) = 32 * 32 * 4
       /\ \A i \in 1..Len(ret.value.rgba) : ret.value.rgba[i] \in 0..255
       /\ \A i \in 1..(32 * 32) : ret.value.rgba[4 * i] = 255

\* The hash of the sample raster under the default (7, 3), decoded under
\* (7, 3), with samples at both ends of the range and in between.
C5_Witness ==
  /\ ret.op = "thumbHashToRGBA"
  /\ ret.cfg = DefaultConfig
  /\ ret.args = Lookup(EncodeTable, SampleRaster, DefaultConfig)
  /\ \E i \in 1..Len(ret.value.rgba) : ret.value.rgba[i] = 0
  /\ \E i \in 1..Len(ret.value.rgba) : ret.value.rgba[i] \in 1..254
  /\ \E i \in 1..Len(ret.value.rgba) : ret.value.rgba[i] = 255 /\ i % 4 # 0

-----------------------------------------------------------------------------
\* Properties of configThumbHash, checked under SpecConfig.

\* The value a parameter takes: its default when the argument is left out.
OrDefault(arg, default) == IF arg = Undefined THEN default ELSE arg

\* C4: configThumbHash throws exactly when an argument is outside 1..10; a
\* call that throws leaves both stored term counts as they were, also when
\* only the second argument is outside; so both stored counts are in 1..10
\* after any sequence of calls from the default (7, 3).
C4_ConfigValidation ==
  /\ config.LUMINANCE_TERMS \in 1..10
  /\ config.CHROMINANCE_TERMS \in 1..10
  /\ ret.op = "configThumbHash" =>
       LET l == OrDefault(ret.args[1], 7)
           c == OrDefault(ret.args[2], 3)
       IN /\ ret.threw <=> (l \notin 1..10 \/ c \notin 1..10)
          /\ ret.threw => config = ret.cfg
          /\ ~ret.threw => config = [LUMINANCE_TERMS |-> l, CHROMINANCE_TERMS |-> c]

\* configThumbHash(3, 11) threw while (10, 10) was stored, and (10, 10) still is.
C4_Witness ==
  /\ ret.op = "configThumbHash"
  /\ ret.args = <<3, 11>>
  /\ ret.threw
  /\ ret.cfg = [LUMINANCE_TERMS |-> 10, CHROMINANCE_TERMS |-> 10]
  /\ config = ret.cfg

-----------------------------------------------------------------------------
\* Properties of rgbaToDataURL, checked under SpecPng.

\* Elements from (0-based, included) up to (excluded) of a sequence.
Slice(s, from, upto) == SubSeq(s, from + 1, upto)

\* The IDAT length field, bytes 33..36 of the output, big-endian.
IdatLength(bytes) ==
  ((bytes[34] * 256 + bytes[35]) * 256 + bytes[36]) * 256 + bytes[37]

\* The last twelve bytes of every output: the IEND chunk.
IendChunk == <<0, 0, 0, 0, 73, 69, 78, 68, 174, 66, 96, 130>>

\* C6: the IDAT payload is 0x78 0x01, then for each row in order a block
\* header [BFINAL, LEN_lo, LEN_hi, ~LEN_lo, ~LEN_hi] with LEN = w * 4 + 1 and
\* BFINAL = 1 on the last row only, the filter byte 0 and the row's w * 4
\* bytes unchanged; the IDAT length field is 6 + h * (w * 4 + 6), which is
\* the size of the payload actually written.
C6_StoredBlocks ==
  ret.op = "rgbaToDataURL" =>
    LET w == ret.args.w
        h == ret.args.h
        rgba == RgbaOf(ret.args)
        bytes == ret.value.bytes
        len == w * 4 + 1
        idat == IdatLength(bytes)
        payload == Slice(bytes, 41, 41 + idat)
    IN /\ Slice(bytes, 37, 41) = <<73, 68, 65, 84>>
       /\ idat = 6 + h * (w * 4 + 6)
       /\ Len(bytes) = 41 + idat + 4 + 12
       /\ Slice(bytes, 41 + idat + 4, Len(bytes)) = IendChunk
       /\ Slice(payload, 0, 2) = <<120, 1>>
       /\ \A y \in 0..(h - 1) :
            Slice(payload, 2 + y * (len + 5), 2 + (y + 1) * (len + 5))
              = <<IF y = h - 1 THEN 1 ELSE 0,
                  len % 256, len \div 256, 255 - (len % 256), 255 - (len \div 256), 0>>
                \o Slice(rgba, y * w * 4, (y + 1) * w * 4)

\* A raster 64 wide and 2 high: LEN = 257 takes both length bytes, the first
\* block is not final and the second is.
C6_Witness ==
  /\ ret.op = "rgbaToDataURL"
  /\ ret.args.w = 64 /\ ret.args.h = 2
  /\ Slice(ret.value.bytes, 43, 48) = <<0, 1, 1, 254, 254>>
  /\ Slice(ret.value.bytes, 43 + 262, 48 + 262) = <<1, 1, 1, 254, 254>>

\* One step of the bitwise CRC-32 on a register held as <<high, low>> 16-bit
\* halves: shift right by one, and XOR 0xEDB88320 in if the bit shifted out is 1.
RefCrcShift(c) ==
  LET hi == c[1] \div 2
      lo == (c[2] \div 2) + (c[1] % 2) * 32768
  IN IF c[2] % 2 = 1 THEN <<BitXor(hi, 60856), BitXor(lo, 33568)>> ELSE <<hi, lo>>

RefCrcByte(c, byte) ==
  RefCrcShift(RefCrcShift(RefCrcShift(RefCrcShift(
    RefCrcShift(RefCrcShift(RefCrcShift(RefCrcShift(<<c[1], BitXor(c[2], byte)>>))))))))

\* The standard CRC-32 of a byte sequence (initial value and final XOR
\* 0xFFFFFFFF), as four bytes, most significant first.
RefCrc32(seq) ==
  LET c == Loop(LAMBDA r, i : RefCrcByte(r, seq[i + 1]), <<65535, 65535>>, 0, Len(seq))
      hi == 65535 - c[1]
      lo == 65535 - c[2]
  IN <<hi \div 256, hi % 256, lo \div 256, lo % 256>>

\* C7: the four bytes after the IHDR payload and the four after the IDAT
\* payload are the big-endian standard CRC-32 of the chunk's type tag and
\* payload, without the length field: the table loop on signed 32-bit
\* integers agrees with the bitwise CRC-32.
C7_ChunkCrc ==
  ret.op = "rgbaToDataURL" =>
    LET bytes == ret.value.bytes
        idat == IdatLength(bytes)
    IN /\ Slice(bytes, 12, 16) = <<73, 72, 68, 82>>
       /\ Slice(bytes, 29, 33) = RefCrc32(Slice(bytes, 12, 29))
       /\ Slice(bytes, 41 + idat, 45 + idat) = RefCrc32(Slice(bytes, 37, 41 + idat))

\* A 2 x 2 raster with content 5, whose IDAT chunk has the CRC-32 0x87094609.
C7_Witness ==
  /\ ret.op = "rgbaToDataURL"
  /\ ret.args = [w |-> 2, h |-> 2, px |-> 5]
  /\ Slice(ret.value.bytes, 41 + 34, 45 + 34) = <<135, 9, 70, 9>>

\* The uncompressed scanline stream: each row's filter byte 0 and its pixels.
Scanlines(raster) ==
  LET rgba == RgbaOf(raster)
  IN Collect(LAMBDA y : <<0>> \o Slice(rgba, y * raster.w * 4, (y + 1) * raster.w * 4),
             0, raster.h)

\* The Adler-32 of a byte sequence (a from 1, b from 0, modulo 65521, value
\* b * 65536 + a), as four bytes, most significant first.
RefAdler32(seq) ==
  LET s == Loop(LAMBDA ab, i : <<(ab[1] + seq[i + 1]) % 65521,
                                 (ab[2] + ((ab[1] + seq[i + 1]) % 65521)) % 65521>>,
                <<1, 0>>, 0, Len(seq))
  IN <<s[2] \div 256, s[2] % 256, s[1] \div 256, s[1] % 256>>

\* C8: the four bytes after the last stored block are the big-endian
\* Adler-32 of the scanline stream, every row's filter byte 0 followed by its
\* w * 4 bytes; the once-per-row b = (b + a) % 65521 stands for feeding the
\* filter byte.
C8_Adler ==
  ret.op = "rgbaToDataURL" =>
    LET bytes == ret.value.bytes
        idat == IdatLength(bytes)
    IN Slice(bytes, 41 + idat - 4, 41 + idat) = RefAdler32(Scanlines(ret.args))

\* The 1 x 1 opaque white raster, whose scanline 0, 255, 255, 255, 255 has
\* the Adler-32 0x09FB03FD.
C8_Witness ==
  /\ ret.op = "rgbaToDataURL"
  /\ ret.args = [w |-> 1, h |-> 1, px |-> 0]
  /\ Slice(ret.value.bytes, 41 + 16 - 4, 41 + 16) = <<9, 251, 3, 253>>

-----------------------------------------------------------------------------
\* The header alone: the five bytes rgbaToThumbHash writes for six rounded
\* values, read back by the first lines of thumbHashToRGBA.

\* Rounded values of a 6-bit and of a 5-bit field: both ends, single bits and
\* the two alternating patterns.
Quant6 == {0, 1, 21, 32, 42, 63}
Quant5 == {0, 1, 10, 16, 21, 31}

Quantized ==
  [l_dc : Quant6, p_dc : Quant6, q_dc : Quant6, l_scale : Quant5,
   p_scale : Quant6, q_scale : Quant6]

\* hash = [header24 & 0xff, ...] stored by new Uint8Array(hash), then
\* header24 = hash[0] | (hash[1] << 8) | (hash[2] << 16), header16 = ...
\* and the shifts and masks of the six reads.
HeaderRoundTrip(header24, header16, hash) ==
  [header24 |-> header24, header16 |-> header16, hash |-> hash,
   read |-> HeaderFields(ReadHeader24(hash), ReadHeader16(hash))]

HeaderOf(header24, header16) ==
  HeaderRoundTrip(header24, header16, Uint8Array(HashHead(header24, header16)))

\* The header lines of rgbaToThumbHash entered with the rounded values f,
\* followed by the header lines of thumbHashToRGBA on the bytes written.
writeHeader(f) ==
  /\ ret' = Call("header", f, FALSE,
                 HeaderOf(PackHeader24(f.l_dc, f.p_dc, f.q_dc, f.l_scale),
                          PackHeader16(f.p_scale, f.q_scale)))
  /\ UNCHANGED <<config, first>>

\* One call in a behaviour.
NextHeader == ret.op = "none" /\ \E f \in Quantized : writeHeader(f)

SpecHeader == Init /\ [][NextHeader]_vars

\* C11: for rounded values l_dc, p_dc, q_dc, p_scale, q_scale in 0..63 and
\* l_scale in 0..31, each of the five header bytes is in 0..255; the fields
\* sit at bits 0, 6, 12, 18 of the 24-bit word and at bits 3, 9 of the 16-bit
\* word without overlapping (the words are the sums of the shifted fields);
\* the low 3 bits of the 16-bit word are 0; and the shifts and masks of
\* thumbHashToRGBA give back the same six integers.
C11_HeaderRoundTrip ==
  ret.op = "header" =>
    LET f == ret.args
        v == ret.value
    IN /\ Len(v.hash) = 5
       /\ \A i \in 1..5 : v.hash[i] \in 0..255
       /\ v.header24 = f.l_dc + 64 * f.p_dc + 4096 * f.q_dc + 262144 * f.l_scale
       /\ v.header16 = 8 * f.p_scale + 512 * f.q_scale
       /\ v.header16 % 8 = 0
       /\ v.hash = <<v.header24 % 256, (v.header24 \div 256) % 256, v.header24 \div 65536,
                     v.header16 % 256, v.header16 \div 256>>
       /\ v.read = f

\* Every field at its largest value: the bytes are ff ff 7f f8 7f and the six
\* values read are 63, 63, 63, 31, 63, 63.
C11_Witness ==
  /\ ret.op = "header"
  /\ ret.args = [l_dc |-> 63, p_dc |-> 63, q_dc |-> 63, l_scale |-> 31,
                 p_scale |-> 63, q_scale |-> 63]
  /\ ret.value.hash = <<255, 255, 127, 248, 127>>
  /\ ret.value.read.l_scale = 31

-----------------------------------------------------------------------------
\* thumbHashToRGBA on its own, once, under every pair of term counts that
\* configThumbHash accepts, on the hash rgbaToThumbHash returns under the
\* same term counts; the call is recorded with the indices its sums ran over
\* and, for every pixel, the number of entries of fx and fy its two
\* "Precompute the coefficients" loops wrote.

\* fx and fy are declared once, before the pixel loops, and only the two
\* precompute loops write them: for each pixel, in the order of the pixel
\* loops, the numbers of entries of fx and of fy written for it.
Precomputed(d) ==
  Collect(LAMBDA y : Collect(LAMBDA x : << <<Len(Factors(d.n, 0, x)),
                                             Len(Factors(d.n, 0, y))>> >>,
                             0, OutW),
          0, OutH)

\* The image with the record of the sums.
Traced(d) ==
  [image |-> Image(d), l_idx |-> d.l_idx, c_idx |-> d.c_idx, computed |-> Precomputed(d)]

DecodeTrace(h, cfg) ==
  Traced(Decoded(h, cfg.LUMINANCE_TERMS, cfg.CHROMINANCE_TERMS,
                 ReadHeader24(h), ReadHeader16(h)))

thumbHashToRGBATrace(raster) ==
  /\ ret' = Call("thumbHashToRGBA", raster, FALSE,
                 DecodeTrace(EncodeHash(raster, config), config))
  /\ UNCHANGED <<config, first>>

\* The raster whose hash is decoded.
DecRasters == {SampleRaster}

\* One call in a behaviour.
NextDec == ret.op = "none" /\ \E raster \in DecRasters : thumbHashToRGBATrace(raster)

SpecDec == InitEnc /\ [][NextDec]_vars

\* C12: under every pair of term counts in 1..10, chrominance above
\* luminance included, the L sum runs over the indices encodeChannel pushed
\* for the luminance count and the P and Q sums over those it pushed for the
\* chrominance count, and for every pixel each fx[cx] and fy[cy] read by
\* these sums was written by the precompute loops (cx and cy are below the
\* number of entries written).
C12_FactorsComputed ==
  ret.op = "thumbHashToRGBA" =>
    LET v == ret.value
    IN /\ v.l_idx = AcIndices(ret.cfg.LUMINANCE_TERMS)
       /\ v.c_idx = AcIndices(ret.cfg.CHROMINANCE_TERMS)
       /\ Len(v.computed) = OutW * OutH
       /\ \A i \in 1..Len(v.computed) :
            /\ \A j \in 1..Len(v.l_idx) :
                 v.l_idx[j][1] < v.computed[i][1] /\ v.l_idx[j][2] < v.computed[i][2]
            /\ \A j \in 1..Len(v.c_idx) :
                 v.c_idx[j][1] < v.computed[i][1] /\ v.c_idx[j][2] < v.computed[i][2]

-----------------------------------------------------------------------------
\* rgbaToThumbHash followed by thumbHashToAverageRGBA on the hash returned,
\* under every pair of term counts that configThumbHash accepts.

NextAvg ==
  \/ \E raster \in EncRasters : rgbaToThumbHashTrace(raster)
  \/ /\ ret.op = "rgbaToThumbHash" /\ ~ret.threw
     /\ thumbHashToAverageRGBA(ret.value.hash)

SpecAvg == InitEnc /\ [][NextAvg]_vars

\* C13: in every hash rgbaToThumbHash returns, under term counts in 1..10 and
\* for rasters with sides in 1..100, bit 23 of the 24-bit header (bit 7 of
\* byte 2) is 0, the fields taking bits 0..22 only; thumbHashToAverageRGBA on
\* such a hash does not take a from byte 5 and returns a = 1 with r, g and b
\* in [0,1].
C13_NoAlphaBit ==
  /\ (ret.op = "rgbaToThumbHash" /\ ~ret.threw) =>
       /\ ret.value.hash[3] < 128
       /\ Shr(ReadHeader24(ret.value.hash), 23) = 0
  /\ ret.op = "thumbHashToAverageRGBA" =>
       /\ Shr(ReadHeader24(ret.args), 23) = 0
       /\ ret.value.a = FP
       /\ ret.value.r \in 0..FP /\ ret.value.g \in 0..FP /\ ret.value.b \in 0..FP

\* The hash of a 1 x 1 opaque white raster under (7, 3): l_scale is 1 and
\* fills bits 18..22, byte 2 is 7e, byte 5 has a low half of 8 that is not
\* read, and the average is close to white (p and q, 0 at encode, are read
\* back as 32 / 31.5 - 1) with a = 1.
C13_Witness ==
  /\ ret.op = "thumbHashToAverageRGBA"
  /\ ret.cfg = DefaultConfig
  /\ ret.args[1] = 63 /\ ret.args[3] = 126
  /\ Mask(ret.args[6], 4) = 8
  /\ ret.value.a = FP
  /\ ret.value.r = FP
  /\ ret.value.b \in (FP - FP \div 50)..(FP - 1)

====
